---------------------------- MODULE Spec2Model ----------------------------
(***************************************************************************)
(* A model of the waveshaper plugin lsp-plugins-shaper                     *)
(* (src/src/main/plug/shaper.cpp).                                         *)
(*                                                                         *)
(* Numbers.  The program computes in float and double.  The model computes *)
(* in exact rational arithmetic: a number is a pair <<num, den>> in lowest *)
(* terms with den > 0.  The IEEE non-finite results of a division by zero  *)
(* are kept as <<1, 0>> (+inf), <<-1, 0>> (-inf) and <<0, 0>> (NaN).       *)
(* Rounding is not modelled.                                               *)
(*                                                                         *)
(* Specifications.                                                         *)
(*   Spec       the plugin object behind a host without UI: init,          *)
(*              update_sample_rate, update_settings, process, destroy.     *)
(*              The one aligned block that init slices into buffers is     *)
(*              modelled as an array of 4-byte units; what a unit holds is *)
(*              abstracted to where the value came from (see "Arena").     *)
(*   SpecUI     the same object with the UI attached: init,                *)
(*              update_settings, process with its mesh synchronisation,    *)
(*              ui_activated, and the UI side draining the meshes.         *)
(*   SpecUIFair SpecUI with process called again and again and the UI      *)
(*              taking every mesh it is given.                             *)
(*   SpecMix    the object at order 5 with gain, mix, listen and bypass    *)
(*              changes, processing blocks of zero, one and more than      *)
(*              BUFFER_SIZE samples.                                       *)
(*   SpecBlocks the object under every oversampling mode, processing       *)
(*              blocks up to two sub-blocks and one sample long.           *)
(*   SpecSolve  triangulate_matrix and solve_matrix on bounded systems.    *)
(*   SpecBezier make_bezier on the shifts and the scale range the          *)
(*              controls permit.                                           *)
(*   SpecFiller make_matrix on 3 to 8 equations.                           *)
(*   SpecMatrix make_bezier and make_matrix on the orders and shifts the   *)
(*              controls permit.                                           *)
(*   SpecEval   eval_equation on bounded coefficient vectors and inputs.   *)
(*   SpecXfade  the crossfade loop of process on bounded sub-blocks.       *)
(*   SpecFit    make_bezier, make_matrix, triangulate_matrix, solve_matrix *)
(*              and eval_equation in sequence, as update_settings runs     *)
(*              them, at order 5.                                          *)
(***************************************************************************)
EXTENDS Integers, Sequences, FiniteSets, TLC

VARIABLES
    \* ---- the plugin object (Spec) ----
    phase,          \* "constructed" | "ready" | "destroyed"
    align,          \* OPTIMAL_ALIGN of the build (bytes)
    pData,          \* TRUE iff the aligned block is allocated
    vChannels,      \* TRUE iff vChannels # NULL
    ports,          \* TRUE iff the port pointers (pBypass .. pLogMesh) are bound
    fault,          \* TRUE once a null pointer has been dereferenced
    arena,          \* the aligned block, one entry per 4-byte unit
    nOldOrder, nOrder, bCrossfade, bListen, nSync,
    fHShift, fVShift, fTopScale, fBottomScale,
    fOldTangent, fTangent,
    fOldInGain, fInGain, fOldDryGain, fDryGain,
    fOldWetGain, fWetGain, fOldOutGain, fOutGain,
    chan,           \* the collaborators of a channel: sample rate, bypass, oversampling mode
    vLinGraph, vLogGraph,   \* the graphs' Y rows
    linMesh, logMesh,       \* the mesh buffers of ports gr_lin and gr_log
    hist,           \* what the last call did, for stating the properties
    pending,        \* the shape change not yet followed by a processed sub-block
    applied,        \* the curve applied to the sub-block processed last
    committed,      \* the Y row sync_meshes committed last, for each axis
    \* ---- the pure-function specifications ----
    pc,             \* "in": inputs drawn; "out": the function has been applied
    in,             \* the inputs
    out             \* the results

objVars == << phase, align, pData, vChannels, ports, fault, arena,
              nOldOrder, nOrder, bCrossfade, bListen, nSync,
              fHShift, fVShift, fTopScale, fBottomScale, fOldTangent, fTangent,
              fOldInGain, fInGain, fOldDryGain, fDryGain,
              fOldWetGain, fWetGain, fOldOutGain, fOutGain,
              chan, vLinGraph, vLogGraph, linMesh, logMesh, hist, pending, applied,
              committed >>

funVars == << pc, in, out >>

vars == << objVars, funVars >>

---------------------------------------------------------------------------
(* Exact arithmetic standing for float / double                            *)

Abs(i) == IF i < 0 THEN -i ELSE i

Sgn(i) == IF i < 0 THEN -1 ELSE IF i > 0 THEN 1 ELSE 0

RECURSIVE GCD(_, _)
GCD(a, b) == IF b = 0 THEN a ELSE GCD(b, a % b)

\* n/d in lowest terms; d = 0 gives +inf, -inf or NaN
Norm(n, d) ==
    IF d = 0 THEN << Sgn(n), 0 >>
    ELSE LET g == GCD(Abs(n), Abs(d))
             s == IF d < 0 THEN -1 ELSE 1
         IN  << s * (n \div g), s * (d \div g) >>

R(i) == << i, 1 >>

IsNaN(x) == x = << 0, 0 >>

IsFinite(x) == x[2] # 0

RNeg(x) == << -x[1], x[2] >>

RAdd(x, y) ==
    IF IsNaN(x) \/ IsNaN(y) THEN << 0, 0 >>
    ELSE IF ~IsFinite(x) /\ ~IsFinite(y) THEN (IF x = y THEN x ELSE << 0, 0 >>)
    ELSE IF ~IsFinite(x) THEN x
    ELSE IF ~IsFinite(y) THEN y
    ELSE LET g == GCD(x[2], y[2])
             a == y[2] \div g
             b == x[2] \div g
         IN  Norm(x[1] * a + y[1] * b, x[2] * a)

RSub(x, y) == RAdd(x, RNeg(y))

RMul(x, y) ==
    IF IsNaN(x) \/ IsNaN(y) THEN << 0, 0 >>
    ELSE IF ~IsFinite(x) \/ ~IsFinite(y) THEN << Sgn(x[1]) * Sgn(y[1]), 0 >>
    ELSE LET g1 == GCD(Abs(x[1]), y[2])
             g2 == GCD(Abs(y[1]), x[2])
         IN  Norm((x[1] \div g1) * (y[1] \div g2), (x[2] \div g2) * (y[2] \div g1))

RDiv(x, y) ==
    IF IsNaN(x) \/ IsNaN(y) THEN << 0, 0 >>
    ELSE IF ~IsFinite(y) THEN (IF IsFinite(x) THEN R(0) ELSE << 0, 0 >>)
    ELSE IF ~IsFinite(x) THEN << x[1] * (IF y[1] < 0 THEN -1 ELSE 1), 0 >>
    ELSE IF y[1] = 0 THEN << Sgn(x[1]), 0 >>
    ELSE RMul(x, Norm(y[2], y[1]))

\* x < y; false when either is NaN
RLt(x, y) ==
    /\ ~IsNaN(x) /\ ~IsNaN(y)
    /\ IF IsFinite(x) /\ IsFinite(y) THEN x[1] * y[2] < y[1] * x[2]
       ELSE IF ~IsFinite(x) /\ ~IsFinite(y) THEN x[1] < y[1]
       ELSE IF ~IsFinite(x) THEN x[1] < 0
       ELSE y[1] > 0

\* x == y as the program compares: NaN equals nothing
REq(x, y) == ~IsNaN(x) /\ ~IsNaN(y) /\ x = y

RGe(x, y) == REq(x, y) \/ RLt(y, x)

fabsf(x) == << Abs(x[1]), x[2] >>

lsp_limit(x, lo, hi) == IF RLt(x, lo) THEN lo ELSE IF RLt(hi, x) THEN hi ELSE x

lsp_min(a, b) == IF a < b THEN a ELSE b

RECURSIVE RPow(_, _)
RPow(x, e) == IF e = 0 THEN R(1) ELSE RMul(RPow(x, e - 1), x)

---------------------------------------------------------------------------
(* The curve builder, the solver and the evaluator (shaper.cpp 48-214).    *)
(* Arrays are functions on 0 .. size-1, indexed as in the program.  A      *)
(* matrix is the flat array the program uses: row i starts at (n+1)*i,     *)
(* column 0 is the right-hand side.                                        *)

\* point_t is <<x, y>>
PX(p) == p[1]

PY(p) == p[2]

\* the interior points limited to the unit square
make_bezier_Clamped(a, b, s1, s2) ==
    LET v1 == << a, b >>
        v2 == << RSub(a, R(1)), RSub(b, R(1)) >>
    IN  [ i \in 0..3 |->
            CASE i = 0 -> << R(0), R(0) >>
              [] i = 1 -> << lsp_limit(RMul(PX(v1), s1), R(0), R(1)),
                             lsp_limit(RMul(PY(v1), s1), R(0), R(1)) >>
              [] i = 2 -> << lsp_limit(RAdd(R(1), RMul(PX(v2), s2)), R(0), R(1)),
                             lsp_limit(RAdd(R(1), RMul(PY(v2), s2)), R(0), R(1)) >>
              [] i = 3 -> << R(1), R(1) >> ]

make_bezier(a, b, s1, s2) ==
    LET v1 == << a, b >>
        v2 == << RSub(a, R(1)), RSub(b, R(1)) >>
    IN  [ i \in 0..3 |->
            CASE i = 0 -> << R(0), R(0) >>
              [] i = 1 -> << RMul(PX(v1), s1), RMul(PY(v1), s1) >>
              [] i = 2 -> << RAdd(R(1), RMul(PX(v2), s2)), RAdd(R(1), RMul(PY(v2), s2)) >>
              [] i = 3 -> << R(1), R(1) >> ]

\* one pass of the inner loop: xp[i-1] = sp[i]*t + sp[i-1]*(1-t), i = 1 .. np-1
BezierPass(sp, np, t) ==
    [ i \in 0..(np - 2) |->
        << RAdd(RMul(PX(sp[i + 1]), t), RMul(PX(sp[i]), RSub(R(1), t))),
           RAdd(RMul(PY(sp[i + 1]), t), RMul(PY(sp[i]), RSub(R(1), t))) >> ]

RECURSIVE bezier_eval(_, _, _)
bezier_eval(sp, np, t) ==
    IF np > 1 THEN bezier_eval(BezierPass(sp, np, t), np - 1, t) ELSE sp[0]

\* m with m[i] = x, as a store through a double * does
Put(m, i, x) == [ m EXCEPT ![i] = x ]

\* for (i = from; i < to; ++i) m[base + i] = f[i]
PutRun(m, base, from, to, f) ==
    [ k \in DOMAIN m |-> IF k >= base + from /\ k < base + to THEN f[k - base] ELSE m[k] ]

\* the number of passes of "for (size_t j=0; j < n-4; ++j)": n-4 is computed
\* in size_t, so for n < 4 it wraps to 2^64 + n - 4 and the loop does not end
\* inside any memory; of those passes the model keeps the `cap` first
FillerCount(n, cap) == IF n >= 4 THEN n - 4 ELSE cap

\* lines 118 and 122: s = 1.0 / (n - 3), t = (j + 1) * s
FillerT(n, j) == RMul(R(j + 1), RDiv(R(1), R(n - 3)))

\* the row written by pass j of the filler loop: r[0] = p.y, r[i+1] = p.x^i.
\* The power p.x^i (x after i multiplications by p.x) is kept in factored
\* form << num, den, i >>; CellValue gives the number.
FillerRow(bc, np, n, j) ==
    LET p == bezier_eval(bc, np, FillerT(n, j))
    IN  [ c \in 0..n |-> IF c = 0 THEN PY(p) ELSE << PX(p)[1], PX(p)[2], c - 1 >> ]

CellValue(c) == IF Len(c) = 3 THEN RPow(<< c[1], c[2] >>, c[3]) ELSE c

RECURSIVE FillerRows(_, _, _, _, _, _)
FillerRows(m, bc, np, n, j, count) ==
    IF j >= count THEN m
    ELSE FillerRows(PutRun(m, (n + 1) * (4 + j), 0, n + 1, FillerRow(bc, np, n, j)),
                    bc, np, n, j + 1, count)

\* the zero fill left out
ZeroFill_None(m, sz) == m

\* lines 87-91: m[i] = 0.0 for i < n * (n+1)
ZeroFill(m, sz) == [ i \in DOMAIN m |-> IF i < sz THEN R(0) ELSE m[i] ]

\* the two tangents exchanged
Tangents_Swapped(a, b) == << RDiv(RSub(R(1), b), RSub(R(1), a)), RDiv(b, a) >>

\* lines 84-85: k1 = b / a, k2 = (1 - b) / (1 - a)
Tangents(a, b) == << RDiv(b, a), RDiv(RSub(R(1), b), RSub(R(1), a)) >>

make_matrix(m, bc, np, a0, b0, n) ==
    LET a  == lsp_limit(a0, R(0), R(1))
        b  == lsp_limit(b0, R(0), R(1))
        k1 == Tangents(a, b)[1]
        k2 == Tangents(a, b)[2]
        rs == n + 1
        sz == n * rs
        mz == ZeroFill(m, sz)
        \* row 0: y(0)
        m0 == Put(Put(mz, 0, R(0)), 1, R(1))
        \* row 1: y'(0)
        m1 == Put(Put(Put(m0, rs, k1), rs + 1, R(0)), rs + 2, R(1))
        \* row 2: y'(1)
        m2 == PutRun(Put(m1, 2 * rs, k2), 2 * rs + 1, 0, n, [ i \in 0..(n - 1) |-> R(i) ])
        \* row 3: y(1)
        m3 == PutRun(m2, 3 * rs, 0, rs, [ i \in 0..(rs - 1) |-> R(1) ])
    IN  FillerRows(m3, bc, np, n, 0, FillerCount(n, Cardinality(DOMAIN m)))

swap_row(m, a, b, n) ==
    [ i \in DOMAIN m |->
        IF i >= a /\ i < a + n THEN m[b + (i - a)]
        ELSE IF i >= b /\ i < b + n THEN m[a + (i - b)]
        ELSE m[i] ]

\* the right-hand side column left out of the row operation
subtract_NoRhs(m, r, x, k, n) ==
    [ i \in DOMAIN m |->
        IF i > r /\ i < r + n THEN RSub(m[i], RMul(m[x + (i - r)], k)) ELSE m[i] ]

subtract(m, r, x, k, n) ==
    [ i \in DOMAIN m |->
        IF i >= r /\ i < r + n THEN RSub(m[i], RMul(m[x + (i - r)], k)) ELSE m[i] ]

\* lines 164-171: the first row above row i, going up, whose entry in column
\* i+1 is not zero; -1 when the search runs past row 0
RECURSIVE FindPivot(_, _, _, _)
FindPivot(m, rs, col, x) ==
    IF x < 0 THEN -1
    ELSE IF ~REq(m[rs * x + col], R(0)) THEN x
    ELSE FindPivot(m, rs, col, x - 1)

\* the row search left out
PlaceRow_NoSearch(m, n, i) == m

PlaceRow(m, n, i) ==
    LET rs == n + 1
    IN  IF REq(m[rs * i + i + 1], R(0))
        THEN LET x == FindPivot(m, rs, i + 1, i - 1)
             IN  IF x >= 0 THEN swap_row(m, rs * i, rs * x, rs) ELSE m
        ELSE m

\* the row next above row i only
Eliminate_RowAbove(m, n, i, x) ==
    LET rs == n + 1
    IN  IF REq(m[rs * x + i + 1], R(0)) THEN m
        ELSE subtract(m, rs * x, rs * i, RDiv(m[rs * x + i + 1], m[rs * i + i + 1]), i + 2)

\* the rows with a zero in the pivot column not skipped
RECURSIVE Eliminate_NoSkip(_, _, _, _)
Eliminate_NoSkip(m, n, i, x) ==
    IF x < 0 THEN m
    ELSE LET rs == n + 1
             k  == RDiv(m[rs * x + i + 1], m[rs * i + i + 1])
         IN  Eliminate_NoSkip(subtract(m, rs * x, rs * i, k, i + 2), n, i, x - 1)

\* lines 175-181, for the rows x, x-1 .. 0 above row i
RECURSIVE Eliminate(_, _, _, _)
Eliminate(m, n, i, x) ==
    IF x < 0 THEN m
    ELSE LET rs == n + 1
         IN  IF REq(m[rs * x + i + 1], R(0))
             THEN Eliminate(m, n, i, x - 1)
             ELSE LET k == RDiv(m[rs * x + i + 1], m[rs * i + i + 1])
                  IN  Eliminate(subtract(m, rs * x, rs * i, k, i + 2), n, i, x - 1)

RECURSIVE TriangulateFrom(_, _, _)
TriangulateFrom(m, n, i) ==
    IF i <= 0 THEN m
    ELSE TriangulateFrom(Eliminate(PlaceRow(m, n, i), n, i, i - 1), n, i - 1)

triangulate_matrix(m, n) == TriangulateFrom(m, n, n - 1)

\* s = r[0] - sum over j < i of r[j+1] * v[n-j-1]
RECURSIVE SolveSum(_, _, _, _, _, _)
SolveSum(s, v, m, n, i, j) ==
    IF j >= i THEN s
    ELSE SolveSum(RSub(s, RMul(m[(n + 1) * i + j + 1], v[n - j - 1])), v, m, n, i, j + 1)

RECURSIVE SolveFrom(_, _, _, _)
SolveFrom(v, m, n, i) ==
    IF i >= n THEN v
    ELSE LET s == SolveSum(m[(n + 1) * i], v, m, n, i, 0)
         IN  SolveFrom(Put(v, n - i - 1, RDiv(s, m[(n + 1) * i + i + 1])), m, n, i + 1)

solve_matrix(v, m, n) == SolveFrom(v, m, n, 0)

RECURSIVE Horner(_, _, _, _, _)
Horner(y, v, n, x, i) ==
    IF i >= n THEN y ELSE Horner(RAdd(RMul(y, x), v[i]), v, n, x, i + 1)

\* the sign not reapplied
eval_equation_NoSign(v, n, tan, x0) ==
    LET x == fabsf(x0)
    IN  IF RGe(x, R(1))
        THEN RAdd(R(1), RMul(RSub(x, R(1)), tan))
        ELSE Horner(v[0], v, n, x, 1)

eval_equation(v, n, tan, x0) ==
    LET s == IF RLt(x0, R(0)) THEN R(-1) ELSE R(1)
        x == fabsf(x0)
    IN  IF RGe(x, R(1))
        THEN RMul(RAdd(R(1), RMul(RSub(x, R(1)), tan)), s)
        ELSE RMul(Horner(v[0], v, n, x, 1), s)

\* the blend factor lost by one: (j + 1) * k
BlendT_Next(j, k) == RMul(R(j + 1), k)

\* line 612: t = j * k, with k = 1.0f / ovs_to_do (line 608)
BlendT(j, k) == RMul(R(j), k)

\* lines 606-617: the crossfaded sub-block of K oversampled samples
CrossfadeBlock(buf, K, vOld, nOld, tanOld, v, n, tan) ==
    LET k == RDiv(R(1), R(K))
    IN  [ j \in 0..(K - 1) |->
            LET s     == buf[j]
                t     == BlendT(j, k)
                s_old == eval_equation(vOld, nOld, tanOld, s)
                s_new == eval_equation(v, n, tan, s)
            IN  RAdd(s_old, RMul(RSub(s_new, s_old), t)) ]

---------------------------------------------------------------------------
(* Constants of the program                                                *)

ORDER_MIN == 4

ORDER_MAX == 12

\* the number of items of approximation_orders, the values of the order combo
ORDER_ITEMS == 10

GRAPH_DOTS == 256

BUFFER_SIZE == 512

OVERSAMPLING_MAX == 8

SYNC_LIN == 1

SYNC_LOG == 2

SYNC_ALL == SYNC_LIN + SYNC_LOG

HasBit(n, b) == (n \div b) % 2 = 1

ClearBit(n, b) == IF HasBit(n, b) THEN n - b ELSE n

\* the factor of each entry of all_oversampling_modes (lines 236-249)
OvsFactor == << 1, 2, 2, 3, 3, 4, 4, 6, 6, 8, 8 >>

\* the orders the order combo can ask for: ORDER_MIN + value + 1 (line 535)
ControlOrders == { ORDER_MIN + i + 1 : i \in 0..(ORDER_ITEMS - 1) }

---------------------------------------------------------------------------
(* The state after the constructor (shaper.cpp 253-312)                    *)

NoHist == [ op |-> "none" ]

\* no sub-block has been processed yet
NoCurve == [ n |-> 0, tan |-> R(0) ]

Constructed ==
    /\ phase = "constructed"
    /\ pData = FALSE /\ vChannels = FALSE /\ ports = FALSE /\ fault = FALSE
    /\ arena = << >>
    /\ nOldOrder = 0 /\ nOrder = 0 /\ bCrossfade = FALSE /\ bListen = FALSE
    /\ nSync = SYNC_ALL
    /\ fHShift = R(0) /\ fVShift = R(0) /\ fTopScale = R(0) /\ fBottomScale = R(0)
    /\ fOldTangent = R(0) /\ fTangent = R(0)
    /\ fOldInGain = R(0) /\ fInGain = R(0) /\ fOldDryGain = R(0) /\ fDryGain = R(0)
    /\ fOldWetGain = R(0) /\ fWetGain = R(0) /\ fOldOutGain = R(0) /\ fOutGain = R(0)
    /\ chan = [ sr |-> 0, bypass |-> FALSE, mode |-> 0 ]
    /\ vLinGraph = << >> /\ vLogGraph = << >>
    /\ linMesh = << >> /\ logMesh = << >>
    /\ hist = NoHist
    /\ pending = "none"
    /\ applied = NoCurve
    /\ committed = [ lin |-> [ k |-> "none" ], log |-> [ k |-> "none" ] ]

---------------------------------------------------------------------------
(* Arena: the block init allocates (shaper.cpp 324-366), from vMatrix on.  *)
(* One entry per 4-byte unit: a float is one unit, a double two; unit 0 is *)
(* the first unit of vMatrix.  The regions follow each other as init lays  *)
(* them out: vMatrix, vOldRoots, vRoots, vInBuffer.  The state keeps the   *)
(* units from vOldRoots up to the last one the largest matrix of the order *)
(* control reaches.  The units below vOldRoots hold cells of the scratch   *)
(* matrix only, which every rebuild writes before it reads them (see       *)
(* `fresh` in Rebuild); no other operation touches them.                   *)
(*                                                                         *)
(* A unit holds where its value came from, not the value:                  *)
(*   uninit   never written since the allocation                           *)
(*   zero     written by fill_zero in init                                 *)
(*   audio    a sample written into vInBuffer by process                   *)
(*   matrix   part of a matrix cell written by make_matrix /               *)
(*            triangulate_matrix                                           *)
(*   coef     coefficient v[i] written by solve_matrix of rebuild gen;     *)
(*            exact is FALSE when a row it was computed from had been      *)
(*            overwritten by an earlier store of the same solve_matrix     *)
(*   tainted  computed from a cell that the rebuild had not written        *)
(* gen counts rebuilds back from the latest one (0), up to OldGen.         *)

\* OPTIMAL_ALIGN is defined outside this repository: the builds considered
AlignVals == { 16, 64 }

align_size(x, a) == ((x + a - 1) \div a) * a

\* sizeof(double), sizeof(float), in units
DoubleUnits == 2

UnitBytes == 4

MatrixUnits(al) ==
    align_size(DoubleUnits * UnitBytes * ORDER_MAX * (ORDER_MAX + 1), al) \div UnitBytes

RootsUnits(al) == align_size(UnitBytes * ORDER_MAX, al) \div UnitBytes

OldRootsOff(al) == MatrixUnits(al)

RootsOff(al) == OldRootsOff(al) + RootsUnits(al)

InBufOff(al) == RootsOff(al) + RootsUnits(al)

ArenaUnits == DoubleUnits * (ORDER_MIN + ORDER_ITEMS) * (ORDER_MIN + ORDER_ITEMS + 1)

\* generations told apart: 0 the latest rebuild, 1 the one before, OldGen any older
OldGen == 1

Uninit == [ k |-> "uninit" ]

Zero == [ k |-> "zero" ]

Audio == [ k |-> "audio" ]

Tainted == [ k |-> "tainted" ]

\* a cell of the scratch matrix
MatrixTag == [ k |-> "matrix" ]

CoefTag(i, exact) == [ k |-> "coef", gen |-> 0, i |-> i, exact |-> exact ]

\* a rebuild makes every earlier value one generation older
Age(t) ==
    IF t.k = "coef" THEN [ t EXCEPT !.gen = lsp_min(@ + 1, OldGen) ] ELSE t

AgeGraph(g) == IF g.k = "graph" THEN [ g EXCEPT !.gen = lsp_min(@ + 1, OldGen) ] ELSE g

AgeMesh(m) == IF m.state = "DATA" THEN [ m EXCEPT !.y = AgeGraph(@) ] ELSE m

\* the cells make_matrix writes for order n: those that differ from a marker
\* after a run of make_matrix on an array of markers
Stale == << >>

MaxCells == ArenaUnits \div DoubleUnits

MatrixWrites(n) ==
    LET half == Norm(1, 2)
        m == make_matrix([ c \in 0..(MaxCells - 1) |-> Stale ],
                         make_bezier(half, half, R(1), R(1)), 4, half, half, n)
    IN  { c \in 0..(MaxCells - 1) : m[c] # Stale }

\* MatrixWrites as an explicit table
MatrixWritesTab == [ n \in ControlOrders |-> MatrixWrites(n) ] @@ << >>

\* whether step i of solve_matrix reads unit u of the matrix: the units of
\* row i, columns 0 .. i+1
SolveReads(n, i, u) ==
    /\ u >= DoubleUnits * (n + 1) * i
    /\ u < DoubleUnits * ((n + 1) * i + i + 2)

\* the unit step i of solve_matrix writes: v[n - i - 1]
SolveWrite(al, n, i) == RootsOff(al) + n - i - 1

\* step i reads a row that an earlier step's store has overwritten
Clobbered(al, n, i) == \E j \in 0..(i - 1) : SolveReads(n, i, SolveWrite(al, n, j))

\* coefficient i of the solution (written by step i) is computed from matrix
\* cells only
SolveExact(al, n, i) == \A j \in 0..i : ~Clobbered(al, n, j)

\* SolveExact as an explicit table
SolveExactTab ==
    [ k \in { << al, n, i >> : al \in AlignVals, n \in ControlOrders,
                                i \in 0..(ORDER_MIN + ORDER_ITEMS - 1) } |->
        SolveExact(k[1], k[2], k[3]) ] @@ << >>

\* lines 546 and 558-562 on the arena: dsp::copy(vOldRoots, vRoots, ORDER_MAX),
\* make_matrix, triangulate_matrix, solve_matrix for order n
Rebuild(ar, al, n) ==
    LET oo     == OldRootsOff(al)
        ro     == RootsOff(al)
        copied == [ u \in DOMAIN ar |->
                      IF u >= oo /\ u < oo + ORDER_MAX THEN ar[ro + (u - oo)] ELSE ar[u] ]
        aged   == [ u \in DOMAIN ar |-> Age(copied[u]) ]
        sz     == n * (n + 1)
        w      == MatrixWritesTab[n]
        fresh  == \A c \in 0..(sz - 1) : c \in w
        made   == [ u \in DOMAIN ar |->
                      IF (u \div DoubleUnits) \in w THEN MatrixTag ELSE aged[u] ]
        \* what solve_matrix stores in v[i]
        coef   == [ i \in 0..(n - 1) |->
                      IF fresh THEN CoefTag(i, SolveExactTab[<< al, n, n - 1 - i >>])
                      ELSE Tainted ]
    IN  [ u \in DOMAIN ar |-> IF u >= ro /\ u < ro + n THEN coef[u - ro] ELSE made[u] ]

\* the Y row of a graph: eval_equation of the curve at each of the GRAPH_DOTS
\* coordinates (lines 565-568)
Graph(ar, al, n) ==
    [ k |-> "graph", dots |-> GRAPH_DOTS, gen |-> 0,
      exact |-> LET ro == RootsOff(al)
                IN  \A i \in 0..(n - 1) : ar[ro + i] = CoefTag(i, TRUE) ]

EmptyMesh == [ state |-> "EMPTY" ]

---------------------------------------------------------------------------
(* The operations of the plugin object                                     *)

\* what the host may hand to update_settings through the ports
HShiftVals == { Norm(1, 2), Norm(1, 4) }

VShiftVals == { Norm(1, 2) }

TopScaleVals == { R(1) }

BottomScaleVals == { R(1) }

OrderVals == { 0, ORDER_ITEMS - 2, ORDER_ITEMS - 1 }

GainVals == { R(1) }

OvsVals == { 0 }

SampleRates == { 48000 }

PortValues ==
    [ bypass : { FALSE }, gain_in : GainVals, gain_out : GainVals, dry : GainVals,
      wet : GainVals, listen : { FALSE }, ovs : OvsVals,
      hshift : HShiftVals, vshift : VShiftVals, tscale : TopScaleVals,
      bscale : BottomScaleVals, order : OrderVals ]

\* the sample counts the host may hand to process
SampleCounts == { 0, BUFFER_SIZE + 1 }

\* init (lines 319-452).  outcome: "nomem" alloc_aligned returns NULL (line 341);
\* "chanfail" sOver.init() or sDryDelay.init() fails (lines 377-381);
\* "ok" otherwise
init(outcome) ==
    /\ phase = "constructed" /\ ~fault
    /\ phase' = "ready"
    /\ IF outcome = "nomem"
       THEN UNCHANGED << pData, vChannels, ports, arena, vLinGraph, vLogGraph, linMesh, logMesh >>
       ELSE /\ pData' = TRUE
            /\ vChannels' = TRUE
            /\ arena' = LET oo == OldRootsOff(align)
                             ro == RootsOff(align)
                         IN  [ u \in oo..(ArenaUnits - 1) |->
                                 IF \/ u >= oo /\ u < oo + ORDER_MAX
                                    \/ u >= ro /\ u < ro + ORDER_MAX
                                 THEN Zero ELSE Uninit ]
            /\ vLinGraph' = Uninit
            /\ vLogGraph' = Uninit
            /\ ports' = (outcome = "ok")
            /\ linMesh' = EmptyMesh
            /\ logMesh' = EmptyMesh
    /\ hist' = [ op |-> "init" ]
    /\ UNCHANGED << align, fault, nOldOrder, nOrder, bCrossfade, bListen, nSync,
                    fHShift, fVShift, fTopScale, fBottomScale, fOldTangent, fTangent,
                    fOldInGain, fInGain, fOldDryGain, fDryGain,
                    fOldWetGain, fWetGain, fOldOutGain, fOutGain, chan, pending, applied, committed, funVars >>

\* a null pointer is dereferenced: the behaviour of the program is undefined
\* from here on, and the model stops
Crash ==
    /\ fault' = TRUE
    /\ UNCHANGED << phase, align, pData, vChannels, ports, arena,
                    nOldOrder, nOrder, bCrossfade, bListen, nSync,
                    fHShift, fVShift, fTopScale, fBottomScale, fOldTangent, fTangent,
                    fOldInGain, fInGain, fOldDryGain, fDryGain,
                    fOldWetGain, fWetGain, fOldOutGain, fOutGain,
                    chan, vLinGraph, vLogGraph, linMesh, logMesh, pending, applied, committed, funVars >>

\* destroy (lines 454-482)
destroy ==
    /\ phase \in { "constructed", "ready" } /\ ~fault
    /\ phase' = "destroyed"
    /\ vChannels' = FALSE
    /\ pData' = FALSE
    /\ arena' = << >>
    /\ hist' = [ op |-> "destroy" ]
    /\ UNCHANGED << align, ports, fault, nOldOrder, nOrder, bCrossfade, bListen, nSync,
                    fHShift, fVShift, fTopScale, fBottomScale, fOldTangent, fTangent,
                    fOldInGain, fInGain, fOldDryGain, fDryGain,
                    fOldWetGain, fWetGain, fOldOutGain, fOutGain,
                    chan, vLinGraph, vLogGraph, linMesh, logMesh, pending, applied, committed, funVars >>

\* update_sample_rate (lines 484-495): vChannels[i] is used unguarded
update_sample_rate(sr) ==
    /\ phase = "ready" /\ ~fault
    /\ IF ~vChannels
       THEN Crash /\ hist' = [ op |-> "fault", at |-> "update_sample_rate" ]
       ELSE /\ chan' = [ chan EXCEPT !.sr = sr ]
            /\ hist' = [ op |-> "update_sample_rate" ]
            /\ UNCHANGED << phase, align, pData, vChannels, ports, fault, arena,
                            nOldOrder, nOrder, bCrossfade, bListen, nSync,
                            fHShift, fVShift, fTopScale, fBottomScale, fOldTangent, fTangent,
                            fOldInGain, fInGain, fOldDryGain, fDryGain,
                            fOldWetGain, fWetGain, fOldOutGain, fOutGain,
                            vLinGraph, vLogGraph, linMesh, logMesh, pending, applied, committed, funVars >>

\* every call taken for a change of the shape
ShapeChanged_Always(p, order) == TRUE

\* lines 537-541
ShapeChanged(p, order) ==
    \/ ~REq(p.hshift, fHShift)
    \/ ~REq(p.vshift, fVShift)
    \/ ~REq(p.tscale, fTopScale)
    \/ ~REq(p.bscale, fBottomScale)
    \/ order # nOrder

\* line 535
OrderOf(p) == ORDER_MIN + p.order + 1

\* the flag set on every change
CrossfadeAlways == TRUE

\* line 549
CrossfadeAfterChange == nOrder > 0

\* update_settings (lines 497-574); p: the values of the ports
update_settings(p) ==
    /\ phase = "ready" /\ ~fault
    /\ IF ~ports
       THEN \* pBypass->value() with pBypass = NULL (line 499)
            Crash /\ hist' = [ op |-> "fault", at |-> "update_settings" ]
       ELSE /\ fInGain' = p.gain_in
            /\ fOutGain' = p.gain_out
            /\ fDryGain' = p.dry
            /\ fWetGain' = p.wet
            /\ bListen' = p.listen
            /\ chan' = [ chan EXCEPT !.bypass = p.bypass, !.mode = p.ovs ]
            /\ IF ShapeChanged(p, OrderOf(p))
               THEN /\ nOldOrder' = nOrder
                    /\ fOldTangent' = fTangent
                    /\ bCrossfade' = CrossfadeAfterChange
                    /\ fHShift' = p.hshift
                    /\ fVShift' = p.vshift
                    /\ fTopScale' = p.tscale
                    /\ fBottomScale' = p.bscale
                    /\ nOrder' = OrderOf(p)
                    /\ fTangent' = RDiv(RSub(R(1), p.vshift), RSub(R(1), p.hshift))
                    /\ arena' = Rebuild(arena, align, OrderOf(p))
                    /\ vLinGraph' = Graph(arena', align, nOrder')
                    /\ vLogGraph' = Graph(arena', align, nOrder')
                    /\ nSync' = SYNC_ALL
                    /\ linMesh' = AgeMesh(linMesh)
                    /\ logMesh' = AgeMesh(logMesh)
                    /\ pending' = IF nOrder > 0 THEN "fitted" ELSE "first"
                    /\ committed' = [ lin |-> AgeGraph(committed.lin),
                                      log |-> AgeGraph(committed.log) ]
                    /\ hist' = [ op |-> "update_settings", rebuilt |-> TRUE, p |-> p ]
               ELSE /\ hist' = [ op |-> "update_settings", rebuilt |-> FALSE, p |-> p ]
                    /\ UNCHANGED << nOldOrder, fOldTangent, bCrossfade, fHShift, fVShift,
                                    fTopScale, fBottomScale, nOrder, fTangent, arena,
                                    vLinGraph, vLogGraph, nSync, linMesh, logMesh, pending,
                                    committed >>
            /\ UNCHANGED << phase, align, pData, vChannels, ports, fault,
                            fOldInGain, fOldDryGain, fOldWetGain, fOldOutGain,
                            applied, funVars >>

\* fOldInGain, fOldDryGain, fOldWetGain, fOldOutGain as a sub-block finds them
OldGains ==
    [ gin |-> fOldInGain, dry |-> fOldDryGain, wet |-> fOldWetGain, gout |-> fOldOutGain ]

\* the old gains left as they were
Gains_Kept ==
    [ gin |-> fOldInGain, dry |-> fOldDryGain, wet |-> fOldWetGain, gout |-> fOldOutGain ]

\* lines 649-652: the values the old gains take at the end of a sub-block
Gains ==
    [ gin |-> fInGain, dry |-> fDryGain, wet |-> fWetGain, gout |-> fOutGain ]

\* the whole request taken as one sub-block
BlockSize_Whole(samples, offset) == samples - offset

\* line 589
BlockSize(samples, offset) == lsp_min(samples - offset, BUFFER_SIZE)

\* one pass of the loop of lines 587-664 for a sub-block of to_do samples.
\* st: the arena, the crossfade flag, the old gains and the sub-blocks
\* processed so far.  A sub-block is recorded with its sizes, whether it was
\* crossfaded, and the two ends of each gain ramp applied to it (lramp2 of
\* line 598, lramp1 and lramp_add2 of lines 630-631, lramp1 of line 640)
SubBlock(st, to_do) ==
    LET ovs_to_do == to_do * OvsFactor[chan.mode + 1]
        \* lramp2 and sDryDelay.process write vInBuffer[0 .. to_do-1]
        io == InBufOff(align)
        ar == [ u \in DOMAIN st.ar |->
                  IF u >= io /\ u < io + to_do THEN Audio ELSE st.ar[u] ]
        mix == IF ~bListen
               THEN [ wet |-> << st.old.wet, fWetGain >>, dry |-> << st.old.dry, fDryGain >> ]
               ELSE [ sub |-> TRUE ]
    IN  [ ar     |-> ar,
          xf     |-> FALSE,
          old    |-> Gains,
          blocks |-> Append(st.blocks,
                        [ to_do |-> to_do, ovs_to_do |-> ovs_to_do, xf |-> st.xf,
                          gin |-> << st.old.gin, fInGain >>, mix |-> mix,
                          gout |-> << st.old.gout, fOutGain >> ]) ]

RECURSIVE ProcessLoop(_, _, _)
ProcessLoop(st, offset, samples) ==
    IF offset >= samples THEN st
    ELSE LET to_do == BlockSize(samples, offset)
         IN  ProcessLoop(SubBlock(st, to_do), offset + to_do, samples)

\* the isEmpty() test left out
MeshReady_PresentOnly(m, mesh) == m

\* lines 675 and 687: (m != NULL) && (m->isEmpty())
MeshReady(m, mesh) == m /\ mesh.state = "EMPTY"

\* sync_meshes for one axis (lines 672-683, 684-695).  m: whether the port
\* hands out a mesh buffer
SyncAxis(sync, bit, m, mesh, coord, graph) ==
    IF HasBit(sync, bit) /\ MeshReady(m, mesh)
    THEN [ sync  |-> ClearBit(sync, bit),
           mesh  |-> [ state |-> "DATA", rows |-> 2, items |-> GRAPH_DOTS,
                       x |-> coord, y |-> graph ],
           wrote |-> TRUE ]
    ELSE [ sync |-> sync, mesh |-> mesh, wrote |-> FALSE ]

\* process (lines 576-668) followed by sync_meshes (lines 670-696).
\* mLin, mLog: whether pLinMesh / pLogMesh hand out a buffer in this call
process(samples, mLin, mLog) ==
    /\ phase = "ready" /\ ~fault
    /\ IF ~ports
       THEN \* c->pIn->buffer() with vChannels = NULL or pIn unbound (line 582)
            Crash /\ hist' = [ op |-> "fault", at |-> "process" ]
       ELSE LET st  == ProcessLoop([ ar |-> arena, xf |-> bCrossfade, old |-> OldGains,
                                     blocks |-> << >> ], 0, samples)
                lin == SyncAxis(nSync, SYNC_LIN, mLin, linMesh, "vLinCoord", vLinGraph)
                log == SyncAxis(lin.sync, SYNC_LOG, mLog, logMesh, "vLogCoord", vLogGraph)
            IN  /\ arena' = st.ar
                /\ bCrossfade' = st.xf
                /\ fOldInGain' = st.old.gin
                /\ fOldDryGain' = st.old.dry
                /\ fOldWetGain' = st.old.wet
                /\ fOldOutGain' = st.old.gout
                /\ IF samples > 0
                   THEN /\ pending' = "none"
                        /\ applied' = [ n |-> nOrder, tan |-> fTangent ]
                   ELSE UNCHANGED << pending, applied >>
                /\ linMesh' = lin.mesh
                /\ logMesh' = log.mesh
                /\ nSync' = log.sync
                /\ committed' = [ lin |-> IF lin.wrote THEN vLinGraph ELSE committed.lin,
                                  log |-> IF log.wrote THEN vLogGraph ELSE committed.log ]
                /\ hist' = [ op |-> "process", samples |-> samples, blocks |-> st.blocks,
                             mLin |-> mLin, wroteLin |-> lin.wrote,
                             mLog |-> mLog, wroteLog |-> log.wrote ]
                /\ UNCHANGED << phase, align, pData, vChannels, ports, fault,
                                nOldOrder, nOrder, bListen,
                                fHShift, fVShift, fTopScale, fBottomScale, fOldTangent, fTangent,
                                fInGain, fDryGain, fWetGain, fOutGain,
                                chan, vLinGraph, vLogGraph, funVars >>

\* ui_activated (lines 698-701)
ui_activated ==
    /\ phase = "ready" /\ ~fault
    /\ nSync' = SYNC_ALL
    /\ hist' = [ op |-> "ui_activated" ]
    /\ UNCHANGED << phase, align, pData, vChannels, ports, fault, arena,
                    nOldOrder, nOrder, bCrossfade, bListen,
                    fHShift, fVShift, fTopScale, fBottomScale, fOldTangent, fTangent,
                    fOldInGain, fInGain, fOldDryGain, fDryGain,
                    fOldWetGain, fWetGain, fOldOutGain, fOutGain,
                    chan, vLinGraph, vLogGraph, linMesh, logMesh, pending, applied, committed, funVars >>

\* the UI side takes the data of a mesh and marks it empty
MeshDrain(axis) ==
    /\ phase = "ready" /\ ~fault /\ pData
    /\ IF axis = SYNC_LIN
       THEN linMesh.state = "DATA" /\ linMesh' = EmptyMesh /\ UNCHANGED logMesh
       ELSE logMesh.state = "DATA" /\ logMesh' = EmptyMesh /\ UNCHANGED linMesh
    /\ hist' = [ op |-> "drain" ]
    /\ UNCHANGED << phase, align, pData, vChannels, ports, fault, arena,
                    nOldOrder, nOrder, bCrossfade, bListen, nSync,
                    fHShift, fVShift, fTopScale, fBottomScale, fOldTangent, fTangent,
                    fOldInGain, fInGain, fOldDryGain, fDryGain,
                    fOldWetGain, fWetGain, fOldOutGain, fOutGain,
                    chan, vLinGraph, vLogGraph, pending, applied, committed, funVars >>

Init ==
    /\ Constructed
    /\ align \in AlignVals
    /\ pc = "obj" /\ in = << >> /\ out = << >>

\* Spec: the object behind a host that has no UI attached: the mesh ports
\* hand out no buffer
Next ==
    \/ \E outcome \in { "ok", "nomem", "chanfail" } : init(outcome)
    \/ destroy
    \/ \E sr \in SampleRates : update_sample_rate(sr)
    \/ \E p \in PortValues : update_settings(p)
    \/ \E samples \in SampleCounts : process(samples, FALSE, FALSE)

Spec == Init /\ [][Next]_vars

\* SpecUI: the object with the UI attached, the order control left alone
UIPortValues == { p \in PortValues : p.order = 0 }

UISampleCounts == { 1 }

NextUI ==
    \/ init("ok")
    \/ \E p \in UIPortValues : update_settings(p)
    \/ \E samples \in UISampleCounts, mLin \in BOOLEAN, mLog \in BOOLEAN :
          process(samples, mLin, mLog)
    \/ ui_activated
    \/ \E axis \in { SYNC_LIN, SYNC_LOG } : MeshDrain(axis)

SpecUI == Init /\ [][NextUI]_vars

\* SpecMix: the object with the gains, bypass, listen and oversampling controls
\* moved as well as the shape, on one build
MixGains ==
    { << R(1), R(1), R(1), R(1) >>, << Norm(1, 2), R(2), Norm(1, 4), Norm(3, 4) >> }

MixPortValues ==
    { [ bypass |-> b, gain_in |-> g[1], gain_out |-> g[2], dry |-> g[3], wet |-> g[4],
        listen |-> l, ovs |-> o, hshift |-> h, vshift |-> v, tscale |-> ts,
        bscale |-> bs, order |-> 0 ] :
        b \in BOOLEAN, g \in MixGains, l \in BOOLEAN, o \in { 0, 1 },
        h \in HShiftVals, v \in VShiftVals, ts \in TopScaleVals, bs \in BottomScaleVals }

MixSampleCounts == { 0, 1, BUFFER_SIZE + 1 }

InitMix == Init /\ align = 16

NextMix ==
    \/ init("ok")
    \/ \E p \in MixPortValues : update_settings(p)
    \/ \E samples \in MixSampleCounts : process(samples, FALSE, FALSE)

SpecMix == InitMix /\ [][NextMix]_vars

\* SpecUIFair: SpecUI under a host that keeps calling process with both mesh
\* buffers handed out (process ends in sync_meshes, line 667) and a UI that
\* takes every mesh it is given, on one build
SpecUIFair ==
    /\ InitMix /\ [][NextUI]_vars
    /\ WF_vars(\E samples \in UISampleCounts : process(samples, TRUE, TRUE))
    /\ WF_vars(MeshDrain(SYNC_LIN))
    /\ WF_vars(MeshDrain(SYNC_LOG))

\* SpecBlocks: the object with every entry of all_oversampling_modes selected
\* in turn, and requests below, at and above the size of the working buffer
BlockPortValues ==
    { [ p EXCEPT !.ovs = o ] : p \in UIPortValues, o \in 0..(Len(OvsFactor) - 1) }

NextBlocks ==
    \/ init("ok")
    \/ \E p \in BlockPortValues : update_settings(p)
    \/ \E samples \in { 0, 1, BUFFER_SIZE, BUFFER_SIZE + 1, 2 * BUFFER_SIZE + 1 } :
          process(samples, FALSE, FALSE)

SpecBlocks == Init /\ [][NextBlocks]_vars

---------------------------------------------------------------------------
(* Claims on the plugin object                                             *)

\* C1: once update_settings has fitted a curve, the current order nOrder is
\* within ORDER_MIN+1 .. ORDER_MAX+1, whatever item of the order combo is
\* selected.
C1_OrderInRange ==
    nOrder # 0 => nOrder \in (ORDER_MIN + 1)..(ORDER_MAX + 1)

\* the shape controls of p hold the stored values
SameShape(p) ==
    /\ p.hshift = fHShift /\ p.vshift = fVShift
    /\ p.tscale = fTopScale /\ p.bscale = fBottomScale
    /\ OrderOf(p) = nOrder

\* C11: an update_settings call whose hshift, vshift, top scale, bottom scale
\* and order all equal the stored values leaves the arena (both coefficient
\* vectors), both orders, both tangents, the crossfade flag, both graphs and
\* the mesh dirty flags as they were, whatever the gains, bypass, listen and
\* oversampling controls hold.
C11_NoRebuildWithoutShapeChange ==
    [][ (hist'.op = "update_settings" /\ SameShape(hist'.p)) =>
            UNCHANGED << arena, nOldOrder, nOrder, fOldTangent, fTangent, bCrossfade,
                         vLinGraph, vLogGraph, nSync >> ]_vars

\* a call that moved gains, listen, bypass and oversampling while a crossfade
\* was pending
C11_Witness ==
    /\ hist.op = "update_settings" /\ ~hist.rebuilt
    /\ bCrossfade /\ pending = "fitted" /\ nSync = SYNC_ALL
    /\ fInGain # fOldInGain /\ fWetGain # fOldWetGain
    /\ bListen /\ chan.bypass /\ chan.mode # 0

\* C12: whenever update_settings rebuilds the curve, the previous instance is
\* the complete current instance as it was immediately before the rebuild:
\* nOldOrder and fOldTangent are the former nOrder and fTangent, and
\* vOldRoots[i] holds what vRoots[i] held for every i below the former order,
\* for every order the order control can select.
C12_PreviousIsFormerCurrent ==
    [][ (hist'.op = "update_settings" /\ hist'.rebuilt) =>
            /\ nOldOrder' = nOrder
            /\ fOldTangent' = fTangent
            /\ \A i \in 0..(nOrder - 1) :
                  arena'[OldRootsOff(align) + i] = Age(arena[RootsOff(align) + i]) ]_vars

\* C19: for every order the order control can select, the cells written by
\* make_matrix stay inside the region init reserved for vMatrix and the
\* coefficients written by solve_matrix inside the region reserved for a
\* coefficient vector: no unit of vOldRoots, vRoots or vInBuffer ever holds a
\* matrix cell, and no unit of vInBuffer a coefficient.
C19_RebuildStaysInItsRegions ==
    \A u \in DOMAIN arena :
        /\ arena[u].k = "matrix" => u < MatrixUnits(align)
        /\ arena[u].k \in { "coef", "tainted" } => u < InBufOff(align)

\* the sub-blocks of a process call after the first one apply the current
\* curve only, the crossfade flag is clear once a sub-block has run, and a
\* call without samples leaves the flag as it was
LaterBlocksPlain ==
    /\ \A k \in 2..Len(hist'.blocks) : ~hist'.blocks[k].xf
    /\ hist'.samples > 0 => ~bCrossfade'
    /\ hist'.samples = 0 => (hist'.blocks = << >> /\ bCrossfade' = bCrossfade)

\* C2 (as stated): after every detected change of a shape parameter, the very
\* first one after construction included, exactly the first non-empty sub-block
\* processed afterwards is crossfaded, and no other.
C2_CrossfadeAfterEveryChange ==
    [][ hist'.op = "process" =>
          /\ LaterBlocksPlain
          /\ hist'.samples > 0 => (hist'.blocks[1].xf <=> pending # "none") ]_vars

\* C2 (amended): after every detected change made while a curve is already
\* fitted, exactly the first non-empty sub-block processed afterwards is
\* crossfaded, and no other; after the first change that follows construction
\* no sub-block is crossfaded.
C2_CrossfadeAfterChangeOfFittedCurve ==
    [][ hist'.op = "process" =>
          /\ LaterBlocksPlain
          /\ hist'.samples > 0 => (hist'.blocks[1].xf <=> pending = "fitted") ]_vars

C2_Witness ==
    /\ hist.op = "process"
    /\ Len(hist.blocks) = 2
    /\ hist.blocks[1].xf /\ ~hist.blocks[2].xf
    /\ ~bCrossfade

\* what sync_meshes may do to one axis in a step of process: it writes only
\* into an empty mesh that the port hands out and whose dirty bit is set; the
\* bit is cleared exactly when the rows were written and committed; otherwise
\* bit and mesh stay as they were
AxisSynced(bit, m, wrote, mesh, meshAfter) ==
    /\ wrote => (m /\ mesh.state = "EMPTY" /\ HasBit(nSync, bit))
    /\ wrote => (meshAfter.state = "DATA" /\ meshAfter.rows = 2
                    /\ meshAfter.items = GRAPH_DOTS)
    /\ ~wrote => meshAfter = mesh
    /\ (HasBit(nSync, bit) /\ ~HasBit(nSync', bit)) <=> wrote
    /\ ~HasBit(nSync, bit) => ~HasBit(nSync', bit)

\* C8: sync_meshes never writes into a mesh that is not empty, clears the dirty
\* bit of an axis only in a step that wrote and committed the rows of that
\* axis, and leaves the bit set when the mesh is absent or not empty, for each
\* axis on its own.
C8_SyncOnlyIntoEmptyMesh ==
    [][ hist'.op = "process" =>
          /\ AxisSynced(SYNC_LIN, hist'.mLin, hist'.wroteLin, linMesh, linMesh')
          /\ AxisSynced(SYNC_LOG, hist'.mLog, hist'.wroteLog, logMesh, logMesh') ]_vars

C8_Witness ==
    /\ hist.op = "process"
    /\ hist.wroteLin /\ ~HasBit(nSync, SYNC_LIN)
    /\ hist.mLog /\ ~hist.wroteLog
    /\ logMesh.state = "DATA" /\ HasBit(nSync, SYNC_LOG)

\* C9: after a failed allocation in init no operation dereferences a null
\* buffer, channel or port pointer.
C9_GuardedAfterAllocFailure ==
    (phase = "ready" /\ ~pData) => ~fault

\* C10: after every rebuild, whatever the calls before it, coefficient i of
\* vRoots (i < nOrder) is the one the rebuild computed for the stored
\* parameters, and fTangent is (1 - vshift) / (1 - hshift): nothing of an
\* earlier curve, of the audio buffer or of uninitialised memory is left in
\* them.
C10_RebuildHistoryFree ==
    (hist.op = "update_settings" /\ hist.rebuilt) =>
        /\ \A i \in 0..(nOrder - 1) :
              arena[RootsOff(align) + i] =
                  CoefTag(i, SolveExact(align, nOrder, nOrder - 1 - i))
        /\ fTangent = RDiv(RSub(R(1), fVShift), RSub(R(1), fHShift))

C10_Witness ==
    /\ hist.op = "update_settings" /\ hist.rebuilt
    /\ nOldOrder > nOrder
    /\ arena[RootsOff(align) + nOrder].k = "coef"
    /\ arena[RootsOff(align) + nOrder].gen > 0
    /\ \E u \in DOMAIN arena : arena[u] = Audio
    /\ arena[RootsOff(align)] = CoefTag(0, TRUE)

---------------------------------------------------------------------------
(* SpecSolve: triangulate_matrix and solve_matrix on bounded systems       *)

\* the sizes of the systems drawn
SolveOrders == { 2, 3 }

\* the entries of the coefficient columns are drawn from 0 .. MaxCoef
MaxCoef == 1

\* the right-hand side columns drawn: one with a different entry in every
\* row, one with zeros
RhsVecs(n) == { [ i \in 0..(n - 1) |-> i + 1 ], [ i \in 0..(n - 1) |-> i % 2 ] }

\* what the coefficient array holds before the solver writes it
StaleRoot == R(7)

Systems(n) ==
    { [ i \in 0..(n * (n + 1) - 1) |->
          IF i % (n + 1) = 0 THEN R(b[i \div (n + 1)])
          ELSE R(a[(i \div (n + 1)) * n + (i % (n + 1)) - 1]) ] :
        a \in [ 0..(n * n - 1) -> 0..MaxCoef ], b \in RhsVecs(n) }

InitSolve ==
    /\ Constructed /\ align = 0
    /\ pc = "in"
    /\ \E n \in SolveOrders : \E m \in Systems(n) : in = [ n |-> n, m |-> m ]
    /\ out = << >>

SolveStep ==
    /\ pc = "in"
    /\ LET t == triangulate_matrix(in.m, in.n)
           v == solve_matrix([ i \in 0..(in.n - 1) |-> StaleRoot ], t, in.n)
       IN  out' = [ t |-> t,
                    v |-> v,
                    \* lines 565-568 and 613-621: the curve at points inside (-1, 1)
                    g |-> [ x \in { R(0), Norm(1, 2), Norm(-1, 2) } |->
                              eval_equation(v, in.n, R(1), x) ] ]
    /\ pc' = "out"
    /\ UNCHANGED << in, objVars >>

SpecSolve == InitSolve /\ [][SolveStep]_vars

---------------------------------------------------------------------------
(* Claims about the solver                                                 *)

\* entry (i, j) of the coefficient part of a system: row i, unknown j
Coef(m, n, i, j) == m[(n + 1) * i + j + 1]

Rhs(m, n, i) == m[(n + 1) * i]

RECURSIVE RSum(_, _, _)
RSum(f, from, to) == IF from > to THEN R(0) ELSE RAdd(f[from], RSum(f, from + 1, to))

\* the determinant of the coefficient part, by expansion along the first row
\* of the rows `rows` and the columns `cols` (sequences of indices)
DropAt(q, k) == [ i \in 1..(Len(q) - 1) |-> IF i < k THEN q[i] ELSE q[i + 1] ]

\* on the integer entries the systems are drawn from
RECURSIVE ISum(_, _, _)
ISum(f, from, to) == IF from > to THEN 0 ELSE f[from] + ISum(f, from + 1, to)

RECURSIVE Det(_, _, _, _)
Det(m, n, rows, cols) ==
    IF Len(rows) = 0 THEN 1
    ELSE ISum([ k \in 1..Len(cols) |->
                  (IF k % 2 = 1 THEN 1 ELSE -1) * Coef(m, n, rows[1], cols[k])[1]
                     * Det(m, n, Tail(rows), DropAt(cols, k)) ],
              1, Len(cols))

NonSingular(m, n) == Det(m, n, [ i \in 1..n |-> i - 1 ], [ i \in 1..n |-> i - 1 ]) # 0

\* row i of system m is satisfied by v, unknown j being stored at v[n-1-j]
RowHolds(m, n, v, i) ==
    REq(RSum([ j \in 0..(n - 1) |-> RMul(Coef(m, n, i, j), v[n - 1 - j]) ], 0, n - 1),
        Rhs(m, n, i))

\* C3: for every non-singular system, triangulate_matrix followed by
\* solve_matrix returns a vector that satisfies every row of the original
\* matrix, and every pivot the solver divides by (row 0's included) is
\* non-zero.
C3_SolveSatisfiesOriginal ==
    (pc = "out" /\ NonSingular(in.m, in.n)) =>
        /\ \A i \in 0..(in.n - 1) : RowHolds(in.m, in.n, out.v, i)
        /\ \A i \in 0..(in.n - 1) : ~REq(Coef(out.t, in.n, i, i), R(0))

\* a non-singular system of size 3 whose last two rows have a zero in their
\* pivot column, so that the upward search must find another row
C3_Witness ==
    /\ pc = "out" /\ in.n = 3 /\ NonSingular(in.m, 3)
    /\ REq(Coef(in.m, 3, 2, 2), R(0))
    /\ REq(Coef(in.m, 3, 1, 2), R(0))
    /\ \A i \in 0..2 : RowHolds(in.m, 3, out.v, i)

\* C17: after triangulate_matrix on a non-singular system, in exact
\* arithmetic, row i has a non-zero pivot in column i+1 and zeros in the
\* coefficient columns i+2 .. n, for every i, and solve_matrix computes
\* coefficient i from row i and the coefficients 0 .. i-1 alone.
C17_TriangularFromTheBottom ==
    (pc = "out" /\ NonSingular(in.m, in.n)) =>
        \A i \in 0..(in.n - 1) :
            /\ ~REq(Coef(out.t, in.n, i, i), R(0))
            /\ \A j \in (i + 1)..(in.n - 1) : Coef(out.t, in.n, i, j) = R(0)
            /\ out.v[in.n - 1 - i] =
                  RDiv(RSub(Rhs(out.t, in.n, i),
                            RSum([ j \in 0..(i - 1) |->
                                     RMul(Coef(out.t, in.n, i, j), out.v[in.n - 1 - j]) ],
                                 0, i - 1)),
                       Coef(out.t, in.n, i, i))

\* a non-singular system of size 3 with non-zero entries in all three cells
\* the triangulation has to clear
C17_Witness ==
    /\ pc = "out" /\ in.n = 3 /\ NonSingular(in.m, 3)
    /\ \A i \in 0..1 : \A j \in (i + 1)..2 :
          Coef(in.m, 3, i, j) # R(0) /\ Coef(out.t, 3, i, j) = R(0)
    /\ \A i \in 0..2 : out.v[i] # R(0)

\* the rows of the triangulated system whose pivot is zero
ZeroPivots(t, n) == { i \in 0..(n - 1) : REq(Coef(t, n, i, i), R(0)) }

\* C13: a zero pivot that no row above can replace raises no error:
\* triangulate_matrix divides by no zero (every cell it leaves is finite), the
\* division by the zero pivot of row i happens in solve_matrix and leaves a
\* non-finite coefficient v[n-1-i], and eval_equation hands the non-finite
\* value on to the graphs and to the audio for every input inside (-1, 1).
C13_ZeroPivotPropagates ==
    pc = "out" =>
        /\ \A c \in DOMAIN out.t : IsFinite(out.t[c])
        /\ \A i \in ZeroPivots(out.t, in.n) : ~IsFinite(out.v[in.n - 1 - i])
        /\ ZeroPivots(out.t, in.n) # { } => \A x \in DOMAIN out.g : ~IsFinite(out.g[x])

\* a system of size 3 with a zero pivot in a row below row 0 and a non-zero
\* pivot elsewhere, solved to an infinity, with a finite coefficient beside it
C13_Witness ==
    /\ pc = "out" /\ in.n = 3
    /\ ZeroPivots(out.t, 3) # { } /\ 0 \notin ZeroPivots(out.t, 3)
    /\ \A c \in DOMAIN out.t : IsFinite(out.t[c])
    /\ \E i \in 0..2 : ~IsFinite(out.v[i]) /\ ~IsNaN(out.v[i])
    /\ \E i \in 0..2 : IsFinite(out.v[i])
    /\ \A x \in DOMAIN out.g : ~IsFinite(out.g[x])

---------------------------------------------------------------------------
(* SpecMatrix: make_bezier and make_matrix on the orders and shifts the     *)
(* controls permit                                                          *)

SHIFT_MIN == Norm(1, 10)

SHIFT_MAX == Norm(9, 10)

MatrixOrders == (ORDER_MIN + 1)..(ORDER_MAX + 1)

MatrixShifts == { SHIFT_MIN, Norm(1, 2), SHIFT_MAX }

\* cells kept behind the matrix, to see what is written past its end
MatrixSlack == 2

InitMatrix ==
    /\ Constructed /\ align = 0
    /\ pc = "in"
    /\ \E n \in MatrixOrders, a \in MatrixShifts, b \in MatrixShifts :
          in = [ n |-> n, a |-> a, b |-> b ]
    /\ out = << >>

MatrixStep ==
    /\ pc = "in"
    /\ LET bc == make_bezier(in.a, in.b, R(1), R(1))
           m0 == [ c \in 0..(in.n * (in.n + 1) + MatrixSlack - 1) |-> StaleRoot ]
       IN  out' = [ m |-> make_matrix(m0, bc, 4, in.a, in.b, in.n) ]
    /\ pc' = "out"
    /\ UNCHANGED << in, objVars >>

SpecMatrix == InitMatrix /\ [][MatrixStep]_vars

\* the coefficient vector with c_i = 1 and every other coefficient 0, c_i
\* being stored at v[n-1-i]
UnitCoef(n, i) == [ k \in 0..(n - 1) |-> IF k = n - 1 - i THEN R(1) ELSE R(0) ]

\* C4: for every order in 5..13 and every permitted shift pair, rows 0..3 of
\* the system built by make_matrix read c_0 = 0, c_1 = k1, sum(i * c_i) = k2
\* and sum(c_i) = 1 with k1 = vshift / hshift, k2 = (1 - vshift) / (1 - hshift),
\* where c_i, the unknown of column i+1 stored at v[n-1-i], is the coefficient
\* eval_equation multiplies by x^i.
C4_BoundaryRows ==
    pc = "out" =>
        LET n  == in.n
            m  == out.m
            k1 == RDiv(in.b, in.a)
            k2 == RDiv(RSub(R(1), in.b), RSub(R(1), in.a))
        IN  /\ Rhs(m, n, 0) = R(0)
            /\ \A j \in 0..(n - 1) : Coef(m, n, 0, j) = (IF j = 0 THEN R(1) ELSE R(0))
            /\ Rhs(m, n, 1) = k1
            /\ \A j \in 0..(n - 1) : Coef(m, n, 1, j) = (IF j = 1 THEN R(1) ELSE R(0))
            /\ Rhs(m, n, 2) = k2
            /\ \A j \in 0..(n - 1) : Coef(m, n, 2, j) = R(j)
            /\ Rhs(m, n, 3) = R(1)
            /\ \A j \in 0..(n - 1) : Coef(m, n, 3, j) = R(1)
            /\ \A i \in 0..(n - 1) :
                  eval_equation(UnitCoef(n, i), n, k2, Norm(1, 2)) = RPow(Norm(1, 2), i)

C4_Witness ==
    /\ pc = "out" /\ in.n = ORDER_MAX + 1
    /\ in.a = SHIFT_MIN /\ in.b = SHIFT_MAX
    /\ Rhs(out.m, in.n, 1) = R(9)
    /\ Rhs(out.m, in.n, 2) = Norm(1, 9)

---------------------------------------------------------------------------
(* SpecBezier: make_bezier over the ranges of the shift and scale controls, *)
(* and the first filler row make_matrix samples from the polygon at order 5 *)

SCALE_MIN == Norm(1, 4)

SCALE_MAX == Norm(7, 4)

InitBezier ==
    /\ Constructed /\ align = 0
    /\ pc = "in"
    /\ \E a \in MatrixShifts, b \in MatrixShifts :
          \E s1 \in { SCALE_MIN, R(1), SCALE_MAX }, s2 \in { SCALE_MIN, R(1), SCALE_MAX } :
             in = [ n |-> ORDER_MIN + 1, a |-> a, b |-> b, s1 |-> s1, s2 |-> s2 ]
    /\ out = << >>

BezierStep ==
    /\ pc = "in"
    /\ LET bc == make_bezier(in.a, in.b, in.s1, in.s2)
           m0 == [ c \in 0..(in.n * (in.n + 1) - 1) |-> StaleRoot ]
           m  == make_matrix(m0, bc, 4, in.a, in.b, in.n)
       IN  out' = [ bc |-> bc, m |-> m ]
    /\ pc' = "out"
    /\ UNCHANGED << in, objVars >>

SpecBezier == InitBezier /\ [][BezierStep]_vars

\* both coordinates of a point are within [lo, hi]
PointWithin(p, lo, hi) ==
    /\ RGe(PX(p), lo) /\ RGe(hi, PX(p))
    /\ RGe(PY(p), lo) /\ RGe(hi, PY(p))

RMax(x, y) == IF RLt(x, y) THEN y ELSE x

\* the point of the cubic Bezier curve of polygon bc at t = 1/2
BezierMid(bc) ==
    << RDiv(RAdd(RAdd(RMul(R(3), PX(bc[1])), RMul(R(3), PX(bc[2]))), R(1)), R(8)),
       RDiv(RAdd(RAdd(RMul(R(3), PY(bc[1])), RMul(R(3), PY(bc[2]))), R(1)), R(8)) >>

EndsFixed == out.bc[0] = << R(0), R(0) >> /\ out.bc[3] = << R(1), R(1) >>

\* C14 (as stated): for every shift and scale the controls permit, the
\* polygon of make_bezier has the endpoints (0,0) and (1,1) and both interior
\* control points inside the unit square when make_matrix samples it.
C14_InteriorInUnitSquare ==
    pc = "out" =>
        /\ EndsFixed
        /\ PointWithin(out.bc[1], R(0), R(1))
        /\ PointWithin(out.bc[2], R(0), R(1))

\* C14 (amended): the endpoints are (0,0) and (1,1); the interior points are
\* (a*s1, b*s1) and (1 - (1-a)*s2, 1 - (1-b)*s2), not clamped: the first is
\* inside the unit square exactly when s1 * max(a, b) <= 1, the second exactly
\* when s2 * max(1-a, 1-b) <= 1, and over the ranges of the controls their
\* coordinates stay within [1 - SHIFT_MAX*SCALE_MAX, SHIFT_MAX*SCALE_MAX];
\* make_matrix samples this polygon as it is: the filler row of order 5 holds
\* the curve's point at t = 1/2.
C14_InteriorIsShiftTimesScale ==
    pc = "out" =>
        LET hi == RMul(SHIFT_MAX, SCALE_MAX)
            lo == RSub(R(1), hi)
        IN  /\ EndsFixed
            /\ out.bc[1] = << RMul(in.a, in.s1), RMul(in.b, in.s1) >>
            /\ out.bc[2] = << RSub(R(1), RMul(RSub(R(1), in.a), in.s2)),
                              RSub(R(1), RMul(RSub(R(1), in.b), in.s2)) >>
            /\ PointWithin(out.bc[1], R(0), R(1))
                   <=> RGe(R(1), RMul(in.s1, RMax(in.a, in.b)))
            /\ PointWithin(out.bc[2], R(0), R(1))
                   <=> RGe(R(1), RMul(in.s2, RMax(RSub(R(1), in.a), RSub(R(1), in.b))))
            /\ PointWithin(out.bc[1], lo, hi) /\ PointWithin(out.bc[2], lo, hi)
            /\ Rhs(out.m, in.n, 4) = PY(BezierMid(out.bc))
            /\ CellValue(Coef(out.m, in.n, 4, 1)) = PX(BezierMid(out.bc))

\* both interior points outside the unit square, and the sampled point with
\* them
C14_Witness ==
    /\ pc = "out" /\ in.a = SHIFT_MAX /\ in.b = SHIFT_MIN
    /\ in.s1 = SCALE_MAX /\ in.s2 = SCALE_MAX
    /\ RLt(R(1), PX(out.bc[1])) /\ RLt(PY(out.bc[2]), R(0))
    /\ RLt(R(1), CellValue(Coef(out.m, in.n, 4, 1)))

---------------------------------------------------------------------------
(* SpecFiller: make_matrix on orders from 3 up, in an array that reaches    *)
(* FillerSlack rows past the matrix                                         *)

FillerSlack == 3

InitFiller ==
    /\ Constructed /\ align = 0
    /\ pc = "in"
    /\ \E n \in 3..(2 * ORDER_MIN), a \in MatrixShifts, b \in MatrixShifts :
          in = [ n |-> n, a |-> a, b |-> b ]
    /\ out = << >>

FillerStep ==
    /\ pc = "in"
    /\ LET bc == make_bezier(in.a, in.b, R(1), R(1))
           m0 == [ c \in 0..((in.n + 1) * (in.n + FillerSlack) - 1) |-> StaleRoot ]
       IN  out' = [ bc     |-> bc,
                    m      |-> make_matrix(m0, bc, 4, in.a, in.b, in.n),
                    passes |-> FillerCount(in.n, Cardinality(DOMAIN m0)) ]
    /\ pc' = "out"
    /\ UNCHANGED << in, objVars >>

SpecFiller == InitFiller /\ [][FillerStep]_vars

\* nothing is written behind the n rows of the matrix
InsideMatrix == \A c \in DOMAIN out.m : c >= in.n * (in.n + 1) => out.m[c] = StaleRoot

\* C16: for every order n < 5 the filler loop of make_matrix makes no pass
\* and only rows inside the n x (n+1) matrix are written; for n >= 5 it
\* writes exactly the n-4 rows 4 .. n-1, row 3+j from the curve's point at
\* t = j/(n-3), j = 1 .. n-4, with 0 < t < 1.
C16_FillerLoop ==
    pc = "out" =>
        /\ InsideMatrix
        /\ in.n < 5 => out.passes = 0
        /\ in.n >= 5 =>
              /\ out.passes = in.n - 4
              /\ \A j \in 1..(in.n - 4) :
                    /\ FillerT(in.n, j - 1) = Norm(j, in.n - 3)
                    /\ RLt(R(0), FillerT(in.n, j - 1)) /\ RLt(FillerT(in.n, j - 1), R(1))
                    /\ Rhs(out.m, in.n, 3 + j) =
                          PY(bezier_eval(out.bc, 4, Norm(j, in.n - 3)))
                    /\ CellValue(Coef(out.m, in.n, 3 + j, 1)) =
                          PX(bezier_eval(out.bc, 4, Norm(j, in.n - 3)))

---------------------------------------------------------------------------
(* SpecEval: eval_equation on bounded coefficient vectors and inputs        *)

EvalOrder == 3

\* the coefficients are drawn from -MaxEvalCoef .. MaxEvalCoef
MaxEvalCoef == 1

EvalTangents == { Norm(1, 2), R(2) }

EvalInputs == { R(0), Norm(1, 2), Norm(-1, 4), R(1), R(-1), Norm(3, 2), R(-2) }

InitEval ==
    /\ Constructed /\ align = 0
    /\ pc = "in"
    /\ \E v \in [ 0..(EvalOrder - 1) -> { R(c) : c \in (-MaxEvalCoef)..MaxEvalCoef } ],
          tan \in EvalTangents, x \in EvalInputs :
          in = [ v |-> v, n |-> EvalOrder, tan |-> tan, x |-> x ]
    /\ out = << >>

EvalStep ==
    /\ pc = "in"
    /\ out' = [ y    |-> eval_equation(in.v, in.n, in.tan, in.x),
                yneg |-> eval_equation(in.v, in.n, in.tan, RNeg(in.x)) ]
    /\ pc' = "out"
    /\ UNCHANGED << in, objVars >>

SpecEval == InitEval /\ [][EvalStep]_vars

\* C5 (as stated): eval_equation(c, n, t, -x) = -eval_equation(c, n, t, x)
\* for every input x, x = 0 included.
C5_OddSymmetric ==
    pc = "out" => out.yneg = RNeg(out.y)

\* C5 (amended): eval_equation(c, n, t, -x) = -eval_equation(c, n, t, x) for
\* every input x other than 0; at x = 0 both calls return the constant
\* coefficient c[n-1].
C5_OddSymmetricOffZero ==
    pc = "out" =>
        IF in.x = R(0)
        THEN out.y = in.v[in.n - 1] /\ out.yneg = in.v[in.n - 1]
        ELSE out.yneg = RNeg(out.y)

C5_Witness ==
    /\ pc = "out"
    /\ in.x = Norm(-1, 4)
    /\ out.y # R(0)
    /\ out.yneg = RNeg(out.y)

---------------------------------------------------------------------------
(* SpecXfade: the crossfaded sub-block on bounded buffers and curves        *)

\* the sub-blocks drawn have 1 .. MaxK oversampled samples
MaxK == 3

XfadeSamples == { Norm(1, 2), Norm(-1, 4), R(2) }

\* the curves drawn: x^2 + x and x, as vectors of order 3
XfadeCurves ==
    { [ i \in 0..2 |-> IF i = 2 THEN R(0) ELSE R(1) ],
      [ i \in 0..2 |-> IF i = 1 THEN R(1) ELSE R(0) ] }

InitXfade ==
    /\ Constructed /\ align = 0
    /\ pc = "in"
    /\ \E K \in 1..MaxK : \E buf \in [ 0..(K - 1) -> XfadeSamples ] :
          \E vOld \in XfadeCurves, v \in XfadeCurves :
             in = [ K |-> K, buf |-> buf, vOld |-> vOld, tanOld |-> Norm(1, 2),
                    v |-> v, tan |-> R(2) ]
    /\ out = << >>

XfadeStep ==
    /\ pc = "in"
    /\ out' = [ buf |-> CrossfadeBlock(in.buf, in.K, in.vOld, 3, in.tanOld, in.v, 3, in.tan) ]
    /\ pc' = "out"
    /\ UNCHANGED << in, objVars >>

SpecXfade == InitXfade /\ [][XfadeStep]_vars

OldOut(j) == eval_equation(in.vOld, 3, in.tanOld, in.buf[j])

NewOut(j) == eval_equation(in.v, 3, in.tan, in.buf[j])

\* the share of the new curve in output sample j, where the curves differ
BlendOf(j) == RDiv(RSub(out.buf[j], OldOut(j)), RSub(NewOut(j), OldOut(j)))

\* C7: in a crossfaded sub-block of K samples, sample j becomes
\* y_old + (y_new - y_old) * (j / K); sample 0 is the old curve's output, the
\* blend factor grows strictly with j and stays below 1 inside the block.
C7_CrossfadeBlend ==
    pc = "out" =>
        /\ out.buf[0] = OldOut(0)
        /\ \A j \in 0..(in.K - 1) :
              /\ out.buf[j] = RAdd(OldOut(j), RMul(RSub(NewOut(j), OldOut(j)), Norm(j, in.K)))
              /\ NewOut(j) # OldOut(j) =>
                    /\ RLt(BlendOf(j), R(1))
                    /\ (j = 0 => BlendOf(j) = R(0))
                    /\ (j > 0 /\ NewOut(j - 1) # OldOut(j - 1)) =>
                          RLt(BlendOf(j - 1), BlendOf(j))

C7_Witness ==
    /\ pc = "out" /\ in.K = MaxK
    /\ \A j \in 0..(in.K - 1) : NewOut(j) # OldOut(j)
    /\ out.buf[0] = OldOut(0)
    /\ out.buf[in.K - 1] # NewOut(in.K - 1)
    /\ out.buf[in.K - 1] # OldOut(in.K - 1)

---------------------------------------------------------------------------
(* SpecFit: the whole fit of update_settings (lines 555-562) at the         *)
(* smallest order of the control, followed by eval_equation                 *)

FitOrder == ORDER_MIN + 1

FitShifts == { Norm(1, 2), Norm(3, 4) }

FitScales == { Norm(1, 2), R(1), Norm(3, 2) }

FitInputs == { R(1), R(-1), Norm(3, 2), R(-3) }

\* lines 558-562; the cells are evaluated to numbers before the elimination
Fit(a, b, t_scale, b_scale, n) ==
    LET bc == make_bezier(a, b, b_scale, t_scale)
        m  == make_matrix([ c \in 0..(n * (n + 1) - 1) |-> StaleRoot ], bc, 4, a, b, n)
        mv == [ c \in DOMAIN m |-> CellValue(m[c]) ]
        t  == triangulate_matrix(mv, n)
    IN  [ m |-> mv, t |-> t, v |-> solve_matrix([ i \in 0..(n - 1) |-> StaleRoot ], t, n) ]

InitFit ==
    /\ Constructed /\ align = 0
    /\ pc = "in"
    /\ \E a \in FitShifts, b \in FitShifts, ts \in FitScales, bs \in FitScales,
          x \in FitInputs :
          in = [ n |-> FitOrder, a |-> a, b |-> b, tscale |-> ts, bscale |-> bs, x |-> x ]
    /\ out = << >>

FitStep ==
    /\ pc = "in"
    /\ LET f   == Fit(in.a, in.b, in.tscale, in.bscale, in.n)
           tan == RDiv(RSub(R(1), in.b), RSub(R(1), in.a))
       IN  out' = [ t   |-> f.t,
                    v   |-> f.v,
                    tan |-> tan,
                    y   |-> eval_equation(f.v, in.n, tan, in.x) ]
    /\ pc' = "out"
    /\ UNCHANGED << in, objVars >>

SpecFit == InitFit /\ [][FitStep]_vars

\* sign(x) * (1 + (|x| - 1) * tan)
Extrapolated(x, tan) ==
    IF RLt(x, R(0))
    THEN RNeg(RAdd(R(1), RMul(RSub(RNeg(x), R(1)), tan)))
    ELSE RAdd(R(1), RMul(RSub(x, R(1)), tan))

\* every pivot of the triangulated system is non-zero
FitNonSingular == \A i \in 0..(in.n - 1) : ~REq(Coef(out.t, in.n, i, i), R(0))

\* C6: for |x| >= 1 eval_equation returns sign(x) * (1 + (|x| - 1) * tangent),
\* hence +1 at x = 1 and -1 at x = -1; and for the coefficients the solver
\* computes from a non-singular system the polynomial branch at x = 1, the sum
\* of the coefficients, is 1 as well.
C6_ContinuousAtOne ==
    pc = "out" =>
        /\ RGe(fabsf(in.x), R(1)) => out.y = Extrapolated(in.x, out.tan)
        /\ in.x = R(1) => out.y = R(1)
        /\ in.x = R(-1) => out.y = R(-1)
        /\ FitNonSingular =>
              /\ Horner(out.v[0], out.v, in.n, R(1), 1) = R(1)
              /\ RSum(out.v, 0, in.n - 1) = R(1)

C6_Witness ==
    /\ pc = "out" /\ in.x = R(-1) /\ out.y = R(-1)
    /\ in.a # in.b /\ in.tscale # in.bscale
    /\ FitNonSingular
    /\ out.v[in.n - 1] = R(0)
    /\ \E i \in 0..(in.n - 1) : RLt(out.v[i], R(0))
    /\ RSum(out.v, 0, in.n - 1) = R(1)

---------------------------------------------------------------------------
(* Claims on the processing loop                                            *)

\* C15: process ends after ceil(samples / BUFFER_SIZE) sub-blocks; each has
\* between 1 and BUFFER_SIZE samples, the sizes add up to samples, and for
\* every entry of all_oversampling_modes the oversampled length
\* to_do * factor is at most BUFFER_SIZE * OVERSAMPLING_MAX, the capacity of
\* vOvsBuffer.
C15_SubBlocksFitBuffers ==
    /\ \A i \in DOMAIN OvsFactor :
          BUFFER_SIZE * OvsFactor[i] <= BUFFER_SIZE * OVERSAMPLING_MAX
    /\ hist.op = "process" =>
          LET nb == Len(hist.blocks)
          IN  /\ nb = (hist.samples + BUFFER_SIZE - 1) \div BUFFER_SIZE
              /\ ISum([ k \in 1..nb |-> hist.blocks[k].to_do ], 1, nb) = hist.samples
              /\ \A k \in 1..nb :
                    /\ hist.blocks[k].to_do \in 1..BUFFER_SIZE
                    /\ hist.blocks[k].ovs_to_do =
                          hist.blocks[k].to_do * OvsFactor[chan.mode + 1]
                    /\ hist.blocks[k].ovs_to_do <= BUFFER_SIZE * OVERSAMPLING_MAX

\* a request of two full sub-blocks and one sample at the largest factor
C15_Witness ==
    /\ hist.op = "process" /\ hist.samples = 2 * BUFFER_SIZE + 1
    /\ chan.mode = Len(OvsFactor) - 1
    /\ Len(hist.blocks) = 3
    /\ hist.blocks[1].ovs_to_do = BUFFER_SIZE * OVERSAMPLING_MAX
    /\ hist.blocks[3].to_do = 1

\* the ramps recorded for a sub-block run from the gains `from` to the
\* current gains; dry and wet ramps exist only outside listen mode
CurrentGains ==
    [ gin |-> fInGain, dry |-> fDryGain, wet |-> fWetGain, gout |-> fOutGain ]

RampsFrom(b, from) ==
    /\ b.gin = << from.gin, fInGain >>
    /\ b.gout = << from.gout, fOutGain >>
    /\ b.mix = IF bListen THEN [ sub |-> TRUE ]
               ELSE [ wet |-> << from.wet, fWetGain >>, dry |-> << from.dry, fDryGain >> ]

OldGainsKept == UNCHANGED << fOldInGain, fOldDryGain, fOldWetGain, fOldOutGain >>

\* C18: a process call with samples > 0 ramps input, dry, wet and output gain
\* from the old to the current value in its first sub-block only, later
\* sub-blocks run at the current value, and afterwards every old gain equals
\* its current gain, in listen mode too, where the dry and wet gains are not
\* applied; a process call with samples = 0 and every update_settings call
\* leave the old gains as they were.
C18_GainsRampInFirstSubBlock ==
    [][ /\ (hist'.op = "process" /\ hist'.samples > 0) =>
              /\ RampsFrom(hist'.blocks[1], OldGains)
              /\ \A k \in 2..Len(hist'.blocks) : RampsFrom(hist'.blocks[k], CurrentGains)
              /\ fOldInGain' = fInGain /\ fOldDryGain' = fDryGain
              /\ fOldWetGain' = fWetGain /\ fOldOutGain' = fOutGain
              /\ UNCHANGED << fInGain, fDryGain, fWetGain, fOutGain >>
        /\ (hist'.op = "process" /\ hist'.samples = 0) => OldGainsKept
        /\ hist'.op = "update_settings" => OldGainsKept ]_vars

\* a call of two sub-blocks in listen mode after all four gains were moved
C18_Witness ==
    /\ hist.op = "process" /\ Len(hist.blocks) = 2 /\ bListen
    /\ hist.blocks[1].gin = << R(1), Norm(1, 2) >>
    /\ hist.blocks[1].gout = << R(1), R(2) >>
    /\ hist.blocks[2].gin = << Norm(1, 2), Norm(1, 2) >>
    /\ fOldWetGain = Norm(3, 4) /\ fWetGain = Norm(3, 4)
    /\ fOldDryGain = Norm(1, 4) /\ fDryGain = Norm(1, 4)

\* C20: in a process call whose first sub-block is crossfaded, the old curve
\* the blend starts from (nOldOrder, fOldTangent, read before the call) has
\* the order and the tangent of the curve applied to the sub-block processed
\* last, whatever update_settings and process calls came in between.
C20_BlendStartsFromAppliedCurve ==
    [][ ( /\ hist'.op = "process"
          /\ hist'.samples > 0
          /\ hist'.blocks[1].xf
          /\ applied # NoCurve )
        => applied = [ n |-> nOldOrder, tan |-> fOldTangent ] ]_vars

\* C21: whenever bCrossfade is set, the previous curve and the current one
\* are fitted curves: nOldOrder and nOrder are both at least ORDER_MIN + 1,
\* never the order 0 the constructor leaves.
C21_CrossfadeBetweenFittedCurves ==
    bCrossfade => (nOldOrder >= ORDER_MIN + 1 /\ nOrder >= ORDER_MIN + 1)

C21_Witness ==
    /\ bCrossfade
    /\ hist.op = "update_settings" /\ hist.rebuilt
    /\ nOldOrder >= ORDER_MIN + 1
    /\ nOldOrder # nOrder

\* the mesh after a step that committed a graph to it holds two rows of
\* GRAPH_DOTS points, the fixed X row, and the graph of the current curve
CommittedCurrent(wrote, meshAfter, coord) ==
    wrote => /\ meshAfter.state = "DATA"
             /\ meshAfter.rows = 2 /\ meshAfter.items = GRAPH_DOTS
             /\ meshAfter.x = coord
             /\ meshAfter.y = Graph(arena, align, nOrder)

\* C22: every graph that sync_meshes commits to a mesh has GRAPH_DOTS points
\* per row, the fixed X row, and as its Y row eval_equation of the current
\* coefficients, order and tangent, whatever calls came before, a process
\* call that precedes the first update_settings included.
C22_CommittedGraphIsCurrentCurve ==
    [][ hist'.op = "process" =>
          /\ CommittedCurrent(hist'.wroteLin, linMesh', "vLinCoord")
          /\ CommittedCurrent(hist'.wroteLog, logMesh', "vLogCoord") ]_vars

\* the state a rebuild in update_settings leaves
RebuiltNow == hist.op = "update_settings" /\ hist.rebuilt

\* the graph committed last for each axis is the graph of the current curve
Delivered ==
    phase = "ready" =>
        /\ committed.lin = Graph(arena, align, nOrder)
        /\ committed.log = Graph(arena, align, nOrder)

\* a dirty axis is synchronised sooner or later
DirtyCleared(bit) ==
    (phase = "ready" /\ HasBit(nSync, bit)) ~> ~HasBit(nSync, bit)

\* C23: when process is called again and again and the UI takes every mesh
\* it is given, the dirty bit of an axis marked dirty is eventually cleared,
\* and once the shape parameters have stopped changing the graph committed
\* last for each axis is the graph of the final curve.
C23_MeshDeliveryIsLive ==
    /\ DirtyCleared(SYNC_LIN)
    /\ DirtyCleared(SYNC_LOG)
    /\ ([]<>RebuiltNow \/ <>[]Delivered)

===========================================================================
